---- MODULE Spec2Model ----
(***************************************************************************)
(* State-machine model of gh_project_helper.py: the Catalog (LABELS,       *)
(* ISSUES, MILESTONES), the read-only `suggest` report, and `setup`, which *)
(* pushes the Catalog to a remote repository through the gh command-line   *)
(* client, one external call at a time.                                    *)
(*                                                                         *)
(* The gh client and the remote repository are the environment: each       *)
(* external call either cannot be launched (subprocess.run raises          *)
(* OSError), or returns a completed process with an exit status, a         *)
(* standard output and a standard error.                                   *)
(***************************************************************************)
EXTENDS Integers, Sequences, FiniteSets, TLC

VARIABLES
    command,          \* the subcommand on the command line (args.command)
    pc,               \* position of the process: main, labels, milestones, list, issues, exit
    i,                \* index of the next Catalog item in the loop at pc
    run,              \* number of the current invocation of the program
    existing_titles,  \* setup's local set of issue titles obtained from the listing
    stdout,           \* every line printed so far, in order
    calls,            \* every external command launched so far, in order, with its outcome
    exitStatus,       \* exit status of the invocations so far: run -> status
    remoteLabels,     \* remote repository: label name -> [color, description] or Absent
    remoteMilestones, \* remote repository: titles of the milestones that exist
    remoteIssues,     \* remote repository: issues, oldest first, run-length encoded
    faults,           \* external calls that failed for a reason other than the remote's state
    budget            \* how many such failures the behaviour admits

vars == << command, pc, i, run, existing_titles, stdout, calls, exitStatus,
           remoteLabels, remoteMilestones, remoteIssues, faults, budget >>

remoteVars == << remoteLabels, remoteMilestones, remoteIssues >>

(***************************************************************************)
(* Bounds of the model.                                                    *)
(***************************************************************************)
\* failing external calls (transport failure, launch failure, bad output) per behaviour
MaxFaults == 1
\* Catalog-named items present on the remote before the first run
MaxPre == 1
\* invocations of the program in a behaviour of SpecTwice
MaxRuns == 2

(***************************************************************************)
(* The Catalog.                                                            *)
(***************************************************************************)
LABELS ==
    << [name |-> "bug", color |-> "d73a4a", description |-> "Something isn't working"],
       [name |-> "feature", color |-> "a2eeef", description |-> "New feature request"],
       [name |-> "enhancement", color |-> "84b6eb", description |-> "Improvement to existing functionality"],
       [name |-> "documentation", color |-> "0075ca", description |-> "Improvements or additions to documentation"],
       [name |-> "good first issue", color |-> "7057ff", description |-> "Good for newcomers"],
       [name |-> "help wanted", color |-> "008672", description |-> "Extra attention is needed"],
       [name |-> "question", color |-> "d876e3", description |-> "Further information is requested"],
       [name |-> "wontfix", color |-> "ffffff", description |-> "This will not be worked on"] >>

ISSUES ==
    << [title |-> "README setup", body |-> "Create a comprehensive README with project description, installation instructions, and usage examples."],
       [title |-> "Add LICENSE", body |-> "Choose and add an appropriate open-source license to the repository."],
       [title |-> "Set up CI/CD", body |-> "Configure continuous integration and deployment pipelines (e.g. GitHub Actions)."],
       [title |-> "Create contributing guidelines", body |-> "Add a CONTRIBUTING.md with guidelines for how others can contribute to the project."] >>

MILESTONES ==
    << [title |-> "v0.1 - Initial Setup", description |-> "Basic project scaffolding and repository configuration."],
       [title |-> "v0.2 - Core Features", description |-> "Implement the core functionality of the project."],
       [title |-> "v1.0 - First Release", description |-> "Stable first public release."] >>

LabelNames == { LABELS[k].name : k \in 1..Len(LABELS) }
IssueTitles == { ISSUES[k].title : k \in 1..Len(ISSUES) }
MilestoneTitles == { MILESTONES[k].title : k \in 1..Len(MILESTONES) }

\* the --repo argument
Repo == "acme/widgets"

(***************************************************************************)
(* Text helpers: Python's str operations used by the program.              *)
(***************************************************************************)
RECURSIVE Rep(_, _)
\* c * n
Rep(c, n) == IF n <= 0 THEN "" ELSE c \o Rep(c, n - 1)

\* format spec :<w  (left-justify, pad with spaces to width w, never truncate)
PadRight(s, w) == s \o Rep(" ", w - Len(s))

\* s[:n]
Prefix(s, n) == IF Len(s) <= n THEN s ELSE SubSeq(s, 1, n)

\* sub in s
Contains(sub, s) ==
    \E k \in 1..(Len(s) - Len(sub) + 1) : SubSeq(s, k, k + Len(sub) - 1) = sub

IsSpace(s, k) == SubSeq(s, k, k) \in {" ", "\n", "\t"}

RECURSIVE LStrip(_)
LStrip(s) == IF Len(s) > 0 /\ IsSpace(s, 1) THEN LStrip(SubSeq(s, 2, Len(s))) ELSE s

RECURSIVE RStrip(_)
RStrip(s) == IF Len(s) > 0 /\ IsSpace(s, Len(s)) THEN RStrip(SubSeq(s, 1, Len(s) - 1)) ELSE s

\* s.strip()
Strip(s) == LStrip(RStrip(s))

RECURSIVE LastLineFrom(_, _)
LastLineFrom(s, k) ==
    IF k = 0 THEN s
    ELSE IF SubSeq(s, k, k) = "\n" THEN SubSeq(s, k + 1, Len(s))
    ELSE LastLineFrom(s, k - 1)

\* s.splitlines()[-1], for a stripped non-empty s
LastLine(s) == LastLineFrom(s, Len(s))

(***************************************************************************)
(* Printed lines.  A line records the run that printed it, what it is      *)
(* about (kind, item), its status tag ("" for headings and table rows) and *)
(* its text.                                                               *)
(***************************************************************************)
Line(kind, item, tag, text) ==
    [run |-> run, kind |-> kind, item |-> item, tag |-> tag, text |-> text]

Heading(text) == Line("heading", "", "", text)

\* print(f"  [{tag}] {item}{rest}")
StatusLine(kind, item, tag, rest) ==
    Line(kind, item, tag, "  [" \o tag \o "] " \o item \o rest)

(***************************************************************************)
(* suggest(repo)                                                           *)
(***************************************************************************)
\* characters of an issue body shown in the preview
BodyPreview == 50

LabelRow(label) ==
    Line("label", label.name, "",
         "  " \o PadRight(label.name, 20) \o " #" \o PadRight(label.color, 9)
              \o " " \o label.description)

\* slip: the body is printed whole
IssueRowFullBody(issue) ==
    Line("issue", issue.title, "",
         "  " \o PadRight(issue.title, 35) \o " " \o issue.body)

IssueRow(issue) ==
    Line("issue", issue.title, "",
         "  " \o PadRight(issue.title, 35) \o " " \o Prefix(issue.body, BodyPreview))

MilestoneRow(ms) ==
    Line("milestone", ms.title, "",
         "  " \o PadRight(ms.title, 25) \o " " \o ms.description)

suggest(repo) ==
    << Heading("Suggestions for " \o repo \o "\n"),
       Heading("Labels:"),
       Heading("  " \o PadRight("Name", 20) \o " " \o PadRight("Color", 10) \o " Description"),
       Heading("  " \o Rep("-", 20) \o " " \o Rep("-", 10) \o " " \o Rep("-", 40)) >>
    \o [k \in 1..Len(LABELS) |-> LabelRow(LABELS[k])]
    \o << Heading("\nIssues:"),
          Heading("  " \o PadRight("Title", 35) \o " Description"),
          Heading("  " \o Rep("-", 35) \o " " \o Rep("-", 50)) >>
    \o [k \in 1..Len(ISSUES) |-> IssueRow(ISSUES[k])]
    \o << Heading("\nMilestones:"),
          Heading("  " \o PadRight("Title", 25) \o " Description"),
          Heading("  " \o Rep("-", 25) \o " " \o Rep("-", 50)) >>
    \o [k \in 1..Len(MILESTONES) |-> MilestoneRow(MILESTONES[k])]

(***************************************************************************)
(* External commands.  A completed process has a return code, a standard   *)
(* output and a standard error.  A standard output is a text; `isJson`     *)
(* tells whether json.loads accepts the text, and `json` is then the value *)
(* it yields: an array of issue objects, run-length encoded as             *)
(* [title, state, n] (n issues in a row with that title).                  *)
(***************************************************************************)
Text(t) == [text |-> t, isJson |-> FALSE, json |-> << >>]
Json(items) == [text |-> "[...]", isJson |-> TRUE, json |-> items]

Completed(rc, out, err) ==
    [raised |-> FALSE, returncode |-> rc, stdout |-> out, stderr |-> err]

\* subprocess.run could not launch the command: OSError
Raised == [raised |-> TRUE, returncode |-> 0 - 1, stdout |-> Text(""), stderr |-> ""]

\* the value following option `flag` in an argument vector
ArgAfter(cmd, flag) == cmd[(CHOOSE k \in 1..Len(cmd) : cmd[k] = flag) + 1]
HasFlag(cmd, flag) == \E k \in 1..Len(cmd) : cmd[k] = flag

\* cmd = ["gh"] + args + ["-R", repo]
GhCmd(args, repo) == << "gh" >> \o args \o << "-R", repo >>

\* slip: the values of --color and --description exchanged
LabelCreateArgsSwapped(label) ==
    << "label", "create", label.name,
       "--color", label.description,
       "--description", label.color,
       "--force" >>

LabelCreateArgs(label) ==
    << "label", "create", label.name,
       "--color", label.color,
       "--description", label.description,
       "--force" >>

MilestoneCmd(repo) ==
    << "gh", "api", "repos/" \o repo \o "/milestones", "--method", "POST", "--input", "-" >>

\* json.dumps({"title": ..., "description": ...})
MilestonePayload(ms) == [title |-> ms.title, description |-> ms.description]

\* --limit of the issue listing
ListLimit == 100

IssueListArgs ==
    << "issue", "list", "--state", "all", "--limit", ToString(ListLimit), "--json", "title" >>

IssueCreateArgs(issue) ==
    << "issue", "create", "--title", issue.title, "--body", issue.body >>

NoInput == [title |-> "", description |-> ""]

IsLabelCreate(cmd) == cmd[2] = "label" /\ cmd[3] = "create"
IsMilestoneCreate(cmd) == cmd[2] = "api" /\ HasFlag(cmd, "POST")
IsIssueList(cmd) == cmd[2] = "issue" /\ cmd[3] = "list"
IsIssueCreate(cmd) == cmd[2] = "issue" /\ cmd[3] = "create"

(***************************************************************************)
(* The remote repository behind the gh client, as the program's commands   *)
(* address it.  A response is the completed process and the remote state   *)
(* the command leaves.                                                     *)
(***************************************************************************)
Absent == [color |-> "", description |-> ""]

Remote == [labels |-> remoteLabels, milestones |-> remoteMilestones, issues |-> remoteIssues]

Min(a, b) == IF a <= b THEN a ELSE b

RECURSIVE IssueCount(_, _)
IssueCount(issues, k) == IF k = 0 THEN 0 ELSE issues[k].n + IssueCount(issues, k - 1)

\* the decimal number an argument spells
ParseInt(s) == CHOOSE n \in 0..(2 * ListLimit) : ToString(n) = s

RECURSIVE TakeNewest(_, _, _)
\* the newest `left` issues among issues[1..k], newest first
TakeNewest(issues, k, left) ==
    IF k = 0 \/ left = 0 THEN << >>
    ELSE LET take == Min(issues[k].n, left)
         IN << [title |-> issues[k].title, n |-> take] >>
            \o TakeNewest(issues, k - 1, left - take)

\* gh label create NAME --color C --description D [--force]
GhLabelCreate(cmd, R) ==
    LET name == cmd[4]
    IN IF R.labels[name] # Absent /\ ~HasFlag(cmd, "--force")
       THEN [result |-> Completed(1, Text(""), "label with name " \o name \o " already exists; use --force to update its color and description\n"),
             remote |-> R]
       ELSE [result |-> Completed(0, Text(""), ""),
             remote |-> [R EXCEPT !.labels[name] =
                            [color |-> ArgAfter(cmd, "--color"),
                             description |-> ArgAfter(cmd, "--description")]]]

\* gh api repos/OWNER/NAME/milestones --method POST --input -
GhMilestoneCreate(input, R) ==
    IF input.title \in R.milestones
    THEN [result |-> Completed(1, Text("{message: Validation Failed, errors: [{code: already_exists}]}"),
                               "gh: Validation Failed (HTTP 422)\n"),
          remote |-> R]
    ELSE [result |-> Completed(0, Text("{title: " \o input.title \o "}"), ""),
          remote |-> [R EXCEPT !.milestones = @ \cup {input.title}]]

\* gh issue list --state S --limit N --json title
GhIssueList(cmd, R) ==
    LET wanted == ArgAfter(cmd, "--state")
        shown == SelectSeq(R.issues, LAMBDA e : wanted = "all" \/ e.state = wanted)
    IN [result |-> Completed(0, Json(TakeNewest(shown, Len(shown), ParseInt(ArgAfter(cmd, "--limit")))), ""),
        remote |-> R]

\* gh issue create --title T --body B
GhIssueCreate(cmd, R) ==
    LET number == IssueCount(R.issues, Len(R.issues)) + 1
    IN [result |-> Completed(0, Text("https://github.com/" \o ArgAfter(cmd, "-R") \o "/issues/" \o ToString(number) \o "\n"), ""),
        remote |-> [R EXCEPT !.issues =
                       Append(@, [title |-> ArgAfter(cmd, "--title"), state |-> "open", n |-> 1])]]

\* what the remote answers to a command that reaches it
Answer(cmd, input, R) ==
    IF IsLabelCreate(cmd) THEN GhLabelCreate(cmd, R)
    ELSE IF IsMilestoneCreate(cmd) THEN GhMilestoneCreate(input, R)
    ELSE IF IsIssueList(cmd) THEN GhIssueList(cmd, R)
    ELSE GhIssueCreate(cmd, R)

(***************************************************************************)
(* Failures of an external call that do not come from the remote's state:  *)
(* the command cannot be launched, it exits non-zero with some error text, *)
(* or (the listing) it exits zero with an output that is empty or is not   *)
(* JSON.  Such a call leaves the remote as it was.                         *)
(***************************************************************************)
TransportError == "error connecting to api.github.com\ncheck your internet connection or https://githubstatus.com\n"

MilestoneErrTexts ==
    { "gh: Validation Failed (HTTP 422)\n",
      "{code: already_exists}\n",
      TransportError }

FailureResults(cmd) ==
    {Raised}
    \cup { Completed(1, Text(""), t) :
             t \in IF IsMilestoneCreate(cmd) THEN MilestoneErrTexts ELSE {TransportError} }
    \cup IF IsIssueList(cmd)
         THEN { Completed(0, Text("\n"), ""),
                Completed(0, Text("no issues match your search in acme/widgets\n"), "") }
         ELSE {}

\* every outcome subprocess.run can have for the command
Responses(cmd, input) ==
    { [result |-> Answer(cmd, input, Remote).result,
       remote |-> Answer(cmd, input, Remote).remote,
       fault |-> FALSE] }
    \cup IF faults < budget
         THEN { [result |-> r, remote |-> Remote, fault |-> TRUE] : r \in FailureResults(cmd) }
         ELSE {}

(***************************************************************************)
(* The program.                                                            *)
(***************************************************************************)
\* run_gh's return value for a completed process: << ok, message >>
run_gh(result, check) ==
    IF check /\ result.returncode # 0
    THEN << FALSE, Text(Strip(result.stderr)) >>
    ELSE << TRUE, [result.stdout EXCEPT !.text = Strip(@)] >>

LabelLine(label, ok, msg) ==
    IF ok THEN StatusLine("label", label.name, "ok", "")
    ELSE StatusLine("label", label.name, "err", ": " \o msg.text)

\* slip: only "already_exists" is taken for a duplicate
MilestoneLineDuplicateOnly(ms, result) ==
    IF result.returncode = 0
    THEN StatusLine("milestone", ms.title, "ok", "")
    ELSE LET err == Strip(result.stderr)
         IN IF Contains("already_exists", err)
            THEN StatusLine("milestone", ms.title, "skip", ": already exists")
            ELSE StatusLine("milestone", ms.title, "err", ": " \o err)

MilestoneLine(ms, result) ==
    IF result.returncode = 0
    THEN StatusLine("milestone", ms.title, "ok", "")
    ELSE LET err == Strip(result.stderr)
         IN IF Contains("already_exists", err) \/ Contains("Validation Failed", err)
            THEN StatusLine("milestone", ms.title, "skip", ": already exists")
            ELSE StatusLine("milestone", ms.title, "err", ": " \o err)

\* {i["title"] for i in json.loads(existing)}
ParseTitles(existing) == { existing.json[k].title : k \in 1..Len(existing.json) }

\* the listing's output makes json.loads raise
ListingRaises(ok, existing) == ok /\ existing.text # "" /\ ~existing.isJson

\* slip: the listing's titles are never taken up
ExistingTitlesDiscarded(ok, existing) ==
    IF ok /\ existing.text = "" THEN ParseTitles(existing) ELSE {}

ExistingTitles(ok, existing) ==
    IF ok /\ existing.text # "" THEN ParseTitles(existing) ELSE {}

IssueSkipLine(issue) == StatusLine("issue", issue.title, "skip", ": already exists")

IssueLine(issue, ok, msg) ==
    IF ok
    THEN LET url == IF msg.text # "" THEN LastLine(msg.text) ELSE ""
         IN StatusLine("issue", issue.title, "ok", " " \o url)
    ELSE StatusLine("issue", issue.title, "err", ": " \o msg.text)

\* the issue loop skips the issue without a create call
SkipsIssue(issue, titles) == issue.title \in titles

\* slip: the loop visits the catalog backwards
ItemReversed(catalog, k) == catalog[Len(catalog) + 1 - k]

\* the k-th item a `for x in catalog` loop visits
Item(catalog, k) == catalog[k]

\* an external command is launched and the environment answers with resp
Launch(cmd, input, resp) ==
    /\ calls' = Append(calls, [run |-> run, cmd |-> cmd, input |-> input, result |-> resp.result])
    /\ remoteLabels' = resp.remote.labels
    /\ remoteMilestones' = resp.remote.milestones
    /\ remoteIssues' = resp.remote.issues
    /\ faults' = faults + (IF resp.fault THEN 1 ELSE 0)

\* an exception nobody catches: traceback, exit status 1
Traceback ==
    /\ pc' = "exit"
    /\ exitStatus' = Append(exitStatus, 1)
    /\ UNCHANGED << i, stdout, existing_titles >>

\* argparse rejects the subcommand: usage message, exit status 2
main_usage ==
    /\ pc = "main"
    /\ command \notin {"suggest", "setup"}
    /\ pc' = "exit"
    /\ exitStatus' = Append(exitStatus, 2)
    /\ UNCHANGED << command, i, run, existing_titles, stdout, calls, remoteVars, faults, budget >>

main_suggest ==
    /\ pc = "main"
    /\ command = "suggest"
    /\ stdout' = stdout \o suggest(Repo)
    /\ pc' = "exit"
    /\ exitStatus' = Append(exitStatus, 0)
    /\ UNCHANGED << command, i, run, existing_titles, calls, remoteVars, faults, budget >>

\* main dispatches to setup, which prints its banner and enters the label loop
main_setup ==
    /\ pc = "main"
    /\ command = "setup"
    /\ stdout' = stdout \o << Heading("Setting up project structure for " \o Repo \o "\n"),
                              Heading("Creating labels...") >>
    /\ pc' = "labels"
    /\ i' = 1
    /\ UNCHANGED << command, run, existing_titles, calls, exitStatus, remoteVars, faults, budget >>

\* one iteration of `for label in LABELS`
setup_label ==
    /\ pc = "labels"
    /\ LET label == Item(LABELS, i)
           cmd == GhCmd(LabelCreateArgs(label), Repo)
       IN \E resp \in Responses(cmd, NoInput) :
            /\ Launch(cmd, NoInput, resp)
            /\ IF resp.result.raised
               THEN Traceback
               ELSE LET r == run_gh(resp.result, TRUE)
                    IN /\ stdout' = stdout \o << LabelLine(label, r[1], r[2]) >>
                                      \o IF i = Len(LABELS)
                                         THEN << Heading("\nCreating milestones...") >>
                                         ELSE << >>
                       /\ pc' = IF i = Len(LABELS) THEN "milestones" ELSE "labels"
                       /\ i' = IF i = Len(LABELS) THEN 1 ELSE i + 1
                       /\ UNCHANGED << exitStatus, existing_titles >>
    /\ UNCHANGED << command, run, budget >>

\* one iteration of `for ms in MILESTONES`
setup_milestone ==
    /\ pc = "milestones"
    /\ LET ms == Item(MILESTONES, i)
           cmd == MilestoneCmd(Repo)
           payload == MilestonePayload(ms)
       IN \E resp \in Responses(cmd, payload) :
            /\ Launch(cmd, payload, resp)
            /\ IF resp.result.raised
               THEN Traceback
               ELSE /\ stdout' = stdout \o << MilestoneLine(ms, resp.result) >>
                                   \o IF i = Len(MILESTONES)
                                      THEN << Heading("\nCreating issues...") >>
                                      ELSE << >>
                    /\ pc' = IF i = Len(MILESTONES) THEN "list" ELSE "milestones"
                    /\ i' = IF i = Len(MILESTONES) THEN 1 ELSE i + 1
                    /\ UNCHANGED << exitStatus, existing_titles >>
    /\ UNCHANGED << command, run, budget >>

\* the bulk query for the existing issue titles
setup_list ==
    /\ pc = "list"
    /\ LET cmd == GhCmd(IssueListArgs, Repo)
       IN \E resp \in Responses(cmd, NoInput) :
            /\ Launch(cmd, NoInput, resp)
            /\ IF resp.result.raised
               THEN Traceback
               ELSE LET r == run_gh(resp.result, TRUE)
                    IN IF ListingRaises(r[1], r[2])
                       THEN Traceback
                       ELSE /\ existing_titles' = ExistingTitles(r[1], r[2])
                            /\ pc' = "issues"
                            /\ i' = 1
                            /\ UNCHANGED << exitStatus, stdout >>
    /\ UNCHANGED << command, run, budget >>

\* after the iteration for ISSUES[i] printed `line`: next issue, or "Done!" and return
IssueDone(line) ==
    /\ stdout' = stdout \o << line >>
                   \o IF i = Len(ISSUES) THEN << Heading("\nDone!") >> ELSE << >>
    /\ pc' = IF i = Len(ISSUES) THEN "exit" ELSE "issues"
    /\ i' = IF i = Len(ISSUES) THEN i ELSE i + 1
    /\ exitStatus' = IF i = Len(ISSUES) THEN Append(exitStatus, 0) ELSE exitStatus
    /\ UNCHANGED existing_titles

\* one iteration of `for issue in ISSUES` that takes the `continue`
setup_issue_skip ==
    /\ pc = "issues"
    /\ SkipsIssue(Item(ISSUES, i), existing_titles)
    /\ IssueDone(IssueSkipLine(Item(ISSUES, i)))
    /\ UNCHANGED << command, run, calls, remoteVars, faults, budget >>

\* one iteration of `for issue in ISSUES` that creates the issue
setup_issue_create ==
    /\ pc = "issues"
    /\ ~SkipsIssue(Item(ISSUES, i), existing_titles)
    /\ LET issue == Item(ISSUES, i)
           cmd == GhCmd(IssueCreateArgs(issue), Repo)
       IN \E resp \in Responses(cmd, NoInput) :
            /\ Launch(cmd, NoInput, resp)
            /\ IF resp.result.raised
               THEN Traceback
               ELSE LET r == run_gh(resp.result, TRUE)
                    IN IssueDone(IssueLine(issue, r[1], r[2]))
    /\ UNCHANGED << command, run, budget >>

\* the operator invokes the same command line again
rerun ==
    /\ pc = "exit"
    /\ run < MaxRuns
    /\ run' = run + 1
    /\ pc' = "main"
    /\ i' = 1
    /\ existing_titles' = {}
    /\ UNCHANGED << command, stdout, calls, exitStatus, remoteVars, faults, budget >>

(***************************************************************************)
(* Initial states: the remote before the first run holds at most MaxPre    *)
(* Catalog-named items (a label with other colour and description, a       *)
(* milestone, an open or closed issue), and possibly ListLimit unrelated   *)
(* issues newer than those.                                                *)
(***************************************************************************)
StaleLabel == [color |-> "ededed", description |-> "old description"]
OtherTitle == "Unrelated issue"

PreIssues(titles, state, others) ==
    LET pre == SelectSeq(ISSUES, LAMBDA e : e.title \in titles)
    IN [k \in 1..Len(pre) |-> [title |-> pre[k].title, state |-> state, n |-> 1]]
       \o IF others > 0 THEN << [title |-> OtherTitle, state |-> "open", n |-> others] >>
          ELSE << >>

InitRemote ==
    \E preL \in SUBSET LabelNames, preM \in SUBSET MilestoneTitles, preI \in SUBSET IssueTitles :
      \E state \in {"open", "closed"}, others \in {0, ListLimit} :
        /\ Cardinality(preL) + Cardinality(preM) + Cardinality(preI) <= MaxPre
        /\ preI = {} => state = "open" /\ others = 0
        /\ remoteLabels = [n \in LabelNames |-> IF n \in preL THEN StaleLabel ELSE Absent]
        /\ remoteMilestones = preM
        /\ remoteIssues = PreIssues(preI, state, others)

InitProcess ==
    /\ pc = "main"
    /\ i = 1
    /\ run = 1
    /\ existing_titles = {}
    /\ stdout = << >>
    /\ calls = << >>
    /\ exitStatus = << >>
    /\ faults = 0

Init ==
    /\ command \in {"suggest", "setup", "status"}
    /\ budget = MaxFaults
    /\ InitProcess
    /\ InitRemote

Next ==
    \/ main_usage
    \/ main_suggest
    \/ main_setup
    \/ setup_label
    \/ setup_milestone
    \/ setup_list
    \/ setup_issue_skip
    \/ setup_issue_create

Spec == Init /\ [][Next]_vars

\* setup invoked MaxRuns times in succession; one external call may fail
InitTwice ==
    /\ command = "setup"
    /\ budget = 1
    /\ InitProcess
    /\ InitRemote

NextTwice ==
    \/ main_setup
    \/ setup_label
    \/ setup_milestone
    \/ setup_list
    \/ setup_issue_skip
    \/ setup_issue_create
    \/ rerun

SpecTwice == InitTwice /\ [][NextTwice]_vars

(***************************************************************************)
(* Properties.                                                             *)
(***************************************************************************)
Tags == {"ok", "skip", "err"}

RunCalls(r) == SelectSeq(calls, LAMBDA c : c.run = r)
StatusLines(r, kind) == SelectSeq(stdout, LAMBDA l : l.run = r /\ l.kind = kind /\ l.tag # "")
LinesAbout(r, kind, item) == SelectSeq(StatusLines(r, kind), LAMBDA l : l.item = item)

LabelCalls(r) == SelectSeq(RunCalls(r), LAMBDA c : IsLabelCreate(c.cmd))
MilestoneCalls(r) == SelectSeq(RunCalls(r), LAMBDA c : IsMilestoneCreate(c.cmd))
ListCalls(r) == SelectSeq(RunCalls(r), LAMBDA c : IsIssueList(c.cmd))
IssueCalls(r) == SelectSeq(RunCalls(r), LAMBDA c : IsIssueCreate(c.cmd))
IssueCallsFor(r, title) ==
    SelectSeq(IssueCalls(r), LAMBDA c : ArgAfter(c.cmd, "--title") = title)

CallFailed(c) == c.result.raised \/ c.result.returncode # 0

\* the current invocation of setup has ended (returned, or died with a traceback)
SetupEnded == command = "setup" /\ pc = "exit"
\* the current invocation of setup has printed "Done!" and returned
SetupDone ==
    /\ SetupEnded
    /\ stdout # << >>
    /\ stdout[Len(stdout)] = [run |-> run, kind |-> "heading", item |-> "", tag |-> "", text |-> "\nDone!"]

RemoteTitles == { remoteIssues[k].title : k \in 1..Len(remoteIssues) }
CatalogLabel(k) == [color |-> LABELS[k].color, description |-> LABELS[k].description]

\* C1: an issue title already present on the remote is never sent to issue create,
\* and the iteration for it prints the [skip] line, whatever the listing returned.
C1_ExistingTitleNeverCreated ==
    [][ (pc = "issues" /\ ISSUES[i].title \in RemoteTitles)
          => /\ calls' = calls
             /\ Len(stdout') > Len(stdout)
             /\ stdout'[Len(stdout) + 1].item = ISSUES[i].title
             /\ stdout'[Len(stdout) + 1].tag = "skip" ]_vars

\* C2 as stated: once a setup run has reached its end, every Catalog label on the
\* remote has the Catalog's color and description.
C2_EveryLabelMatchesAfterRun ==
    SetupDone =>
        \A k \in 1..Len(LABELS) : remoteLabels[LABELS[k].name] = CatalogLabel(k)

\* C2 amended: every Catalog label whose create call a setup run reported [ok] has
\* exactly the Catalog's color and description on the remote, whatever it was before.
C2_OkLabelMatchesCatalog ==
    \A k \in 1..Len(LABELS) :
        (\E r \in 1..run : Len(LinesAbout(r, "label", LABELS[k].name)) > 0
                           /\ LinesAbout(r, "label", LABELS[k].name)[1].tag = "ok")
            => remoteLabels[LABELS[k].name] = CatalogLabel(k)

\* a run ended with every label reported [ok], the remote holding the Catalog's labels
C2_Witness ==
    /\ SetupDone
    /\ \A k \in 1..Len(LABELS) :
          /\ Len(LinesAbout(run, "label", LABELS[k].name)) = 1
          /\ LinesAbout(run, "label", LABELS[k].name)[1].tag = "ok"
          /\ remoteLabels[LABELS[k].name] = CatalogLabel(k)

\* the tag the claim gives the outcome of a milestone create call
C3_Tag(result) ==
    IF result.returncode = 0 THEN "ok"
    ELSE IF Contains("already_exists", result.stderr) \/ Contains("Validation Failed", result.stderr)
         THEN "skip"
         ELSE "err"

SecondRunAsClaimed ==
    /\ \A k \in 1..Len(LABELS) :
          /\ Len(LinesAbout(2, "label", LABELS[k].name)) = 1
          /\ LinesAbout(2, "label", LABELS[k].name)[1].tag = "ok"
    /\ \A k \in 1..Len(MILESTONES) :
          /\ Len(LinesAbout(2, "milestone", MILESTONES[k].title)) = 1
          /\ LinesAbout(2, "milestone", MILESTONES[k].title)[1].tag = "skip"
    /\ \A k \in 1..Len(ISSUES) :
          (Len(LinesAbout(1, "issue", ISSUES[k].title)) > 0
           /\ LinesAbout(1, "issue", ISSUES[k].title)[1].tag = "ok")
             => /\ Len(LinesAbout(2, "issue", ISSUES[k].title)) = 1
                /\ LinesAbout(2, "issue", ISSUES[k].title)[1].tag = "skip"

IssuesAttempted(r) ==
    \A k \in 1..Len(ISSUES) :
        \/ Len(IssueCallsFor(r, ISSUES[k].title)) > 0
        \/ \E n \in 1..Len(LinesAbout(r, "issue", ISSUES[k].title)) :
              LinesAbout(r, "issue", ISSUES[k].title)[n].tag = "skip"

\* C5: a setup run in which the create call failed for exactly one label has, once it
\* has ended, called create for every label and every milestone, made the listing
\* query, and attempted or skipped every issue.
C5_OneLabelFailureIsolated ==
    (SetupEnded /\ Len(SelectSeq(LabelCalls(run), CallFailed)) = 1)
        => /\ Len(LabelCalls(run)) = Len(LABELS)
           /\ Len(MilestoneCalls(run)) = Len(MILESTONES)
           /\ Len(ListCalls(run)) = 1
           /\ IssuesAttempted(run)

\* C6: a setup run that has ended has printed "Done!" and exited with the status of
\* a run without failures, 0.
C6_AlwaysDoneExitZero ==
    SetupEnded => SetupDone /\ exitStatus[run] = 0

Phase(c) ==
    IF IsLabelCreate(c.cmd) THEN 1
    ELSE IF IsMilestoneCreate(c.cmd) THEN 2
    ELSE IF IsIssueList(c.cmd) THEN 3
    ELSE 4

CatalogIndex(title) == CHOOSE k \in 1..Len(ISSUES) : ISSUES[k].title = title

\* C7: in every run the external calls are label creates, then milestone creates, then
\* at most one listing, then issue creates; labels and milestones are called in Catalog
\* order, issue creates in increasing Catalog position, and an issue create comes only
\* after the listing.
C7_CallOrder ==
    \A r \in 1..run :
        LET rc == RunCalls(r)
            lc == LabelCalls(r)
            mc == MilestoneCalls(r)
            ic == IssueCalls(r)
        IN /\ \A a, b \in 1..Len(rc) : a < b => Phase(rc[a]) <= Phase(rc[b])
           /\ Len(lc) <= Len(LABELS)
           /\ \A n \in 1..Len(lc) : lc[n].cmd[4] = LABELS[n].name
           /\ Len(mc) <= Len(MILESTONES)
           /\ \A n \in 1..Len(mc) : mc[n].input.title = MILESTONES[n].title
           /\ Len(ListCalls(r)) <= 1
           /\ Len(ic) > 0 => Len(ListCalls(r)) = 1
           /\ Len(mc) > 0 => Len(lc) = Len(LABELS)
           /\ \A a, b \in 1..Len(ic) :
                 a < b => CatalogIndex(ArgAfter(ic[a].cmd, "--title"))
                            < CatalogIndex(ArgAfter(ic[b].cmd, "--title"))
           /\ \A n \in 1..Len(ic) : ArgAfter(ic[n].cmd, "--title") \in IssueTitles

\* a run made every kind of call: all label and milestone creates, the listing and
\* a create for every issue
C7_Witness ==
    /\ SetupDone
    /\ Len(LabelCalls(run)) = Len(LABELS)
    /\ Len(MilestoneCalls(run)) = Len(MILESTONES)
    /\ Len(ListCalls(run)) = 1
    /\ Len(IssueCalls(run)) = Len(ISSUES)

\* C8: a setup run that has ended has printed exactly one status line for each
\* Catalog label, milestone and issue, tagged [ok], [skip] or [err].
C8_OneStatusLinePerItem ==
    SetupEnded =>
        /\ \A k \in 1..Len(LABELS) :
              /\ Len(LinesAbout(run, "label", LABELS[k].name)) = 1
              /\ LinesAbout(run, "label", LABELS[k].name)[1].tag \in Tags
        /\ \A k \in 1..Len(MILESTONES) :
              /\ Len(LinesAbout(run, "milestone", MILESTONES[k].title)) = 1
              /\ LinesAbout(run, "milestone", MILESTONES[k].title)[1].tag \in Tags
        /\ \A k \in 1..Len(ISSUES) :
              /\ Len(LinesAbout(run, "issue", ISSUES[k].title)) = 1
              /\ LinesAbout(run, "issue", ISSUES[k].title)[1].tag \in Tags

Rows(kind) == SelectSeq(stdout, LAMBDA l : l.kind = kind)

\* what suggest has printed once it has ended
SuggestReport ==
    /\ Len(Rows("label")) = 8
    /\ \A k \in 1..8 : Rows("label")[k].item = LABELS[k].name
    /\ Len(Rows("issue")) = 4
    /\ \A k \in 1..4 :
          /\ Rows("issue")[k].item = ISSUES[k].title
          /\ Len(Rows("issue")[k].text) = 2 + 35 + 1 + 50
          /\ SubSeq(Rows("issue")[k].text, 39, 88) = SubSeq(ISSUES[k].body, 1, 50)
    /\ Len(Rows("milestone")) = 3
    /\ \A k \in 1..3 : Rows("milestone")[k].item = MILESTONES[k].title

\* C9: a suggest invocation launches no external command and never changes the remote,
\* and once ended it has printed 8 label rows, 4 issue rows whose body is cut to its
\* first 50 characters, and 3 milestone rows, in Catalog order.
C9_SuggestReadOnly ==
    /\ [](command = "suggest" => calls = << >>)
    /\ [](command = "suggest" /\ pc = "exit" => SuggestReport)
    /\ [][command = "suggest" => UNCHANGED remoteVars]_vars

\* suggest has printed its report on a remote that holds a Catalog-named item
C9_Witness ==
    /\ command = "suggest"
    /\ pc = "exit"
    /\ Len(Rows("issue")) = 4
    /\ remoteMilestones # {}

\* C10: a setup run that has ended has made exactly one create call per Catalog label
\* and milestone, exactly one listing query, and for each Catalog issue one create call
\* if its title is not among the titles obtained from the listing, none otherwise.
C10_ExactlyOneCallPerItem ==
    SetupEnded =>
        /\ Len(LabelCalls(run)) = Len(LABELS)
        /\ \A k \in 1..Len(LABELS) :
              Len(SelectSeq(LabelCalls(run), LAMBDA c : c.cmd[4] = LABELS[k].name)) = 1
        /\ Len(MilestoneCalls(run)) = Len(MILESTONES)
        /\ \A k \in 1..Len(MILESTONES) :
              Len(SelectSeq(MilestoneCalls(run),
                            LAMBDA c : c.input.title = MILESTONES[k].title)) = 1
        /\ Len(ListCalls(run)) = 1
        /\ \A k \in 1..Len(ISSUES) :
              Len(IssueCallsFor(run, ISSUES[k].title))
                 = IF ISSUES[k].title \in existing_titles THEN 0 ELSE 1

====
